---------------------------- MODULE Spec2Model ----------------------------
(***************************************************************************)
(* Model of the AUTOCLAVE controller (MicroPython, ESP32 build):           *)
(*   lib/config.py, lib/hal/hw_esp32.py, lib/drivers/sensors.py,           *)
(*   lib/drivers/control.py, lib/drivers/buttons.py, lib/core/brain.py,    *)
(*   lib/core/actuator.py, lib/core/actuator_sm.py, lib/core/units.py,     *)
(*   lib/core/ui_controller.py, main.py, test_sensors.py.                  *)
(*                                                                         *)
(* Floats are fixed point: temperatures in 1/100 degree C, pressures in    *)
(* 1/1000 kg/cm2, voltages in millivolts.  A sensor reading is a record    *)
(* [k, v] of kind "num", "nan" or "none"; every comparison with a NaN is   *)
(* false, as in Python.  Any other Python "X | None" is a sequence:        *)
(* << >> for None, <<x>> for x.                                            *)
(***************************************************************************)
EXTENDS Integers, Sequences, FiniteSets, TLC

VARIABLES
    \* lib/config.py (fixed after Init)
    HEAT_ENABLE, PRESSURE_V_PIN_MIN, PRESSURE_V_PIN_MAX,
    \* lib/hal/hw_esp32.py
    pressure_adc, tc_spi, ssr_pin, motor_fwd_pin, motor_rev_pin, now,
    \* lib/core/brain.py
    t_c, p_kg, allow_heat, brain_ssr_on,
    \* lib/drivers/control.py
    control_ssr_on, motor_dir,
    \* lib/core/actuator.py
    state, dir, until_ms,
    \* observers of the run (not program state)
    op, brain_ran, ssr_cmd, motor_cmd, age, wrapped,
    \* locals of the last step_once: the raw word read_tc_c got, the volts
    \* read_pressure_kgcm2 got, and _allow_heat as it found it
    tc_raw, volts_read, prev_allow,
    \* main.py: the stage of _one_step that runs next, and the locals
    \* _one_step hands to the display
    pc, snap,
    \* lib/drivers/control.py and lib/hal/hw_esp32.py: the alarm
    alarm_on, alarm_pin,
    \* observers of the cycle: the phases a step() ended so late that the
    \* phase it started would have been over too, and the duration
    \* _start_phase was given
    jumped, phase_ms,
    \* lib/core/actuator_sm.py
    sm_state, sm_dir, sm_until_ms,
    \* lib/drivers/buttons.py: the manager's Button objects, and (observer)
    \* the events the last Button.poll handed to the callback
    btn_mgr, emitted,
    \* lib/core/ui_controller.py and lib/core/units.py
    page_idx, current_units,
    \* test_sensors.py: the word of the last sample with what the debug
    \* decoder and the production decoder made of it
    dbg

cfgVars   == <<HEAT_ENABLE, PRESSURE_V_PIN_MIN, PRESSURE_V_PIN_MAX>>
sensVars  == <<pressure_adc, tc_spi>>
ssrVars   == <<ssr_pin, control_ssr_on, ssr_cmd>>
motorVars == <<motor_fwd_pin, motor_rev_pin, motor_dir>>
brainVars == <<t_c, p_kg, allow_heat, brain_ssr_on, brain_ran,
               tc_raw, volts_read, prev_allow>>
actVars   == <<state, dir, until_ms>>
phaseObs  == <<age, wrapped, jumped, phase_ms>>
loopVars  == <<pc, snap>>
alarmVars == <<alarm_on, alarm_pin>>
smVars    == <<sm_state, sm_dir, sm_until_ms>>
btnVars   == <<btn_mgr, emitted>>
uiVars    == <<page_idx, current_units>>
vars      == <<cfgVars, sensVars, ssrVars, motorVars, brainVars, actVars,
               phaseObs, loopVars, alarmVars, smVars, btnVars, uiVars, dbg,
               now, op, motor_cmd>>

-----------------------------------------------------------------------------
(* Bounds of the model *)

\* Granularity, in ms, of the clock values the model visits.
QUANTUM == 1000
\* Width of the tick counter in quanta (2^30 ms on the ESP32 port).
TICKS_QUANTA == 64

-----------------------------------------------------------------------------
(* Python values *)

None == << >>
Some(x) == <<x>>

NoneF == [k |-> "none", v |-> 0]
NaN == [k |-> "nan", v |-> 0]
Num(x) == [k |-> "num", v |-> x]
IsNone(f) == f.k = "none"
IsNaN(f) == f.k = "nan"
IsNum(f) == f.k = "num"
FLt(a, b) == IsNum(a) /\ IsNum(b) /\ a.v < b.v
FGe(a, b) == IsNum(a) /\ IsNum(b) /\ a.v >= b.v
FLe(a, b) == IsNum(a) /\ IsNum(b) /\ a.v =< b.v

Max(a, b) == IF a >= b THEN a ELSE b
Min(a, b) == IF a =< b THEN a ELSE b

-----------------------------------------------------------------------------
(* lib/config.py *)

UNITS_METRIC == 0
UNITS_USCS == 1
DEFAULT_UNITS == UNITS_USCS
APP_MAX_PRESSURE_KGCM2 == 1410
APP_MAX_TEMP_C == 12500
PRESSURE_P_MIN_KGCM2 == 0
PRESSURE_P_MAX_KGCM2 == 2100
SSR_ACTIVE_HIGH == TRUE
ALARM_ACTIVE_HIGH == TRUE

\* The shipped calibration (0.334 V, 2.997 V) and two degenerate ones
\* (zero and negative span) of the configuration surface.
CALIBRATIONS == { <<334, 2997>>, <<334, 334>>, <<2997, 334>> }

-----------------------------------------------------------------------------
(* lib/hal/hw_esp32.py *)

\* The model is of the ESP32 build: the machine module imports.
on_real_hw == TRUE

\* time.ticks_ms() counts modulo TICKS_PERIOD.
TICKS_PERIOD == TICKS_QUANTA * QUANTUM

\* 12-bit ADC counts the pressure channel returns: 0 V, PRESSURE_V_PIN_MIN
\* (0.334 V), about 0.5 kg/cm2, just below and at APP_MAX_PRESSURE_KGCM2,
\* PRESSURE_V_PIN_MAX (2.997 V), full scale.
ADC_SAMPLES == {0, 415, 1200, 2634, 2635, 3720, 4095}

\* A 32-bit MAX31855 word is kept as its two 16-bit halves [hi, lo]
\* (word = hi * 65536 + lo): bits [31:18] are hi's bits [15:2], the
\* fault bit 16 is hi's bit 0, the cold junction and the fault sub-flags
\* are in lo.
TcWord(tc14, fault, low) == [hi |-> tc14 * 4 + fault, lo |-> low]
\* Fields: 0, 0.25, 80, 124.75, 125, 125.25 C, the largest positive field,
\* the most negative one and -0.25 C; low halves: nothing set, or a cold
\* junction of 25 C (bits [15:4] = 400) with the three fault sub-flags.
TC_WORDS == { TcWord(f, b, l) :
                f \in {0, 1, 320, 499, 500, 501, 8191, 8192, 16383},
                b \in {0, 1}, l \in {0, 6407} }

\* raw: what _pressure_adc.read() returns, a count or None
read_pressure_volts(raw) ==
    IF pressure_adc = None THEN None
    ELSE IF raw = None THEN None
    ELSE Some((raw[1] * 3300) \div 4095)

read_tc_raw32(word) ==
    IF tc_spi = None THEN None ELSE Some(word)

\* Faulty variant: the polarity is inverted.
write_ssr_Inverted(pin, on) ==
    IF pin = None THEN pin
    ELSE IF SSR_ACTIVE_HIGH THEN Some(IF on THEN 0 ELSE 1)
         ELSE Some(IF on THEN 1 ELSE 0)

write_ssr(pin, on) ==
    IF pin = None THEN pin
    ELSE IF SSR_ACTIVE_HIGH THEN Some(IF on THEN 1 ELSE 0)
         ELSE Some(IF on THEN 0 ELSE 1)

write_alarm(pin, on) ==
    IF pin = None THEN pin
    ELSE IF ALARM_ACTIVE_HIGH THEN Some(IF on THEN 1 ELSE 0)
         ELSE Some(IF on THEN 0 ELSE 1)

\* <<fwd pin, rev pin>> after write_motor(fwd, rev)
write_motor(fpin, rpin, fwd, rev) ==
    IF fpin = None \/ rpin = None THEN <<fpin, rpin>>
    ELSE LET f == IF fwd /\ rev THEN FALSE ELSE fwd
             r == IF fwd /\ rev THEN FALSE ELSE rev
         IN <<Some(IF f THEN 1 ELSE 0), Some(IF r THEN 1 ELSE 0)>>

-----------------------------------------------------------------------------
(* lib/drivers/sensors.py *)

dummy_temp_c == Num(2500)
dummy_pressure_kg == Num(500)

\* Faulty variants: the ratio is not clamped; only a zero span is
\* rejected.
map_voltage_to_kgcm2_Extrapolates(v) ==
    LET span_v == PRESSURE_V_PIN_MAX - PRESSURE_V_PIN_MIN
        span_p == PRESSURE_P_MAX_KGCM2 - PRESSURE_P_MIN_KGCM2
        num    == v - PRESSURE_V_PIN_MIN
    IN IF span_v =< 0 THEN NaN
       ELSE Num(PRESSURE_P_MIN_KGCM2 + (num * span_p) \div span_v)

map_voltage_to_kgcm2_ZeroSpanOnly(v) ==
    LET span_v == PRESSURE_V_PIN_MAX - PRESSURE_V_PIN_MIN
        span_p == PRESSURE_P_MAX_KGCM2 - PRESSURE_P_MIN_KGCM2
        num    == v - PRESSURE_V_PIN_MIN
        ratio_neg == (num < 0) # (span_v < 0)
        ratio_big == IF span_v > 0 THEN num > span_v ELSE num < span_v
    IN IF span_v = 0 THEN NaN
       ELSE IF num # 0 /\ ratio_neg THEN Num(PRESSURE_P_MIN_KGCM2)
       ELSE IF ratio_big THEN Num(PRESSURE_P_MAX_KGCM2)
       ELSE Num(PRESSURE_P_MIN_KGCM2 + (num * span_p) \div span_v)

map_voltage_to_kgcm2(v) ==
    LET span_v == PRESSURE_V_PIN_MAX - PRESSURE_V_PIN_MIN
        span_p == PRESSURE_P_MAX_KGCM2 - PRESSURE_P_MIN_KGCM2
        num    == v - PRESSURE_V_PIN_MIN
        \* ratio = num / span_v, clamped to [0, 1]
        cnum   == IF num < 0 THEN 0 ELSE IF num > span_v THEN span_v ELSE num
    IN IF span_v =< 0 THEN NaN
       ELSE Num(PRESSURE_P_MIN_KGCM2 + (cnum * span_p) \div span_v)

read_pressure_kgcm2(raw) ==
    IF ~on_real_hw THEN dummy_pressure_kg
    ELSE LET volts == read_pressure_volts(raw)
         IN IF volts = None THEN NaN ELSE map_voltage_to_kgcm2(volts[1])

\* Faulty variants: the fault bit is not consulted; the open-circuit
\* sub-flag (bit 0) invalidates the reading too.
decode_tc_c_from_raw_IgnoresFault(raw) ==
    LET f14   == (raw.hi \div 4) % 16384
        tc14  == IF (f14 \div 8192) % 2 = 1 THEN f14 + 49152 ELSE f14
    IN Num(tc14 * 25)

decode_tc_c_from_raw_SubFlags(raw) ==
    LET fault == (raw.hi % 2) # 0
        oc    == (raw.lo % 2) # 0
        f14   == (raw.hi \div 4) % 16384
        tc14  == IF (f14 \div 8192) % 2 = 1 THEN f14 + 49152 ELSE f14
    IN IF fault \/ oc THEN NaN ELSE Num(tc14 * 25)

decode_tc_c_from_raw(raw) ==
    LET fault == (raw.hi % 2) # 0              \* raw & 0x00010000
        f14   == (raw.hi \div 4) % 16384       \* (raw >> 18) & 0x3FFF
        \* tc14 |= 0xC000 when the sign bit (0x2000) is set
        tc14  == IF (f14 \div 8192) % 2 = 1 THEN f14 + 49152 ELSE f14
    IN IF fault THEN NaN ELSE Num(tc14 * 25)

\* test_sensors.py: the debug helper that mirrors the decoder above.
\* Faulty variant: the sign bit makes the value negative.
test_decode_tc_c_from_raw_Signed(raw) ==
    LET fault == (raw.hi % 2) # 0
        f14   == (raw.hi \div 4) % 16384
        tc14  == IF (f14 \div 8192) % 2 = 1 THEN f14 - 16384 ELSE f14
    IN IF fault THEN NaN ELSE Num(tc14 * 25)

test_decode_tc_c_from_raw(raw) ==
    LET fault == (raw.hi % 2) # 0              \* raw & 0x00010000
        f14   == (raw.hi \div 4) % 16384       \* (raw >> 18) & 0x3FFF
        \* tc14 |= 0xC000 when the sign bit (0x2000) is set
        tc14  == IF (f14 \div 8192) % 2 = 1 THEN f14 + 49152 ELSE f14
    IN IF fault THEN NaN ELSE Num(tc14 * 25)

read_tc_c(word) ==
    IF ~on_real_hw THEN dummy_temp_c
    ELSE LET raw == read_tc_raw32(word)
         IN IF raw = None THEN NaN ELSE decode_tc_c_from_raw(raw[1])

-----------------------------------------------------------------------------
(* lib/drivers/control.py *)

\* Faulty variant: the arguments are passed on as given.
SetMotorArgs_Uncoerced(fwd, rev) == <<fwd, rev>>

\* set_motor's coercion of its arguments: both True is treated as STOP.
SetMotorArgs(fwd, rev) ==
    IF fwd /\ rev THEN <<FALSE, FALSE>> ELSE <<fwd, rev>>

set_ssr(on) ==
    /\ control_ssr_on' = on
    /\ ssr_pin' = write_ssr(ssr_pin, on)
    /\ ssr_cmd' = Some(on)

set_motor(fwd, rev) ==
    LET c    == SetMotorArgs(fwd, rev)
        pins == write_motor(motor_fwd_pin, motor_rev_pin, c[1], c[2])
    IN /\ motor_dir' = (IF c[1] THEN 1 ELSE IF c[2] THEN -1 ELSE 0)
       /\ motor_fwd_pin' = pins[1]
       /\ motor_rev_pin' = pins[2]
       /\ motor_cmd' = Some(<<fwd, rev>>)

stop_motor == set_motor(FALSE, FALSE)

-----------------------------------------------------------------------------
(* lib/core/brain.py *)

\* Faulty variants of the window: the temperature gate written as "not
\* out of range", which a NaN passes; the upper limit included.
AllowHeat_NanPasses(t, p) ==
    LET a == ~IsNone(t) /\ ~(FLe(t, Num(0)) \/ FGe(t, Num(APP_MAX_TEMP_C)))
    IN IF IsNone(p) THEN FALSE
       ELSE IF FGe(p, Num(APP_MAX_PRESSURE_KGCM2)) THEN FALSE ELSE a

AllowHeat_Inclusive(t, p) ==
    LET a == ~IsNone(t) /\ FLt(Num(0), t) /\ FLe(t, Num(APP_MAX_TEMP_C))
    IN IF IsNone(p) THEN FALSE
       ELSE IF FGe(p, Num(APP_MAX_PRESSURE_KGCM2)) THEN FALSE ELSE a

\* Faulty variant: a denial latches (heat is allowed only while the
\* previous tick allowed it).
AllowHeat_Latched(t, p) ==
    LET gate_t == IF ~IsNone(t)
                  THEN FLt(Num(0), t) /\ FLt(t, Num(APP_MAX_TEMP_C))
                  ELSE FALSE
    IN IF IsNone(p) THEN FALSE
       ELSE IF FGe(p, Num(APP_MAX_PRESSURE_KGCM2)) THEN FALSE
       ELSE gate_t /\ (brain_ran => allow_heat)

\* step_once's window: the temperature gate, then the pressure gate.
AllowHeat(t, p) ==
    LET gate_t == IF ~IsNone(t)
                  THEN FLt(Num(0), t) /\ FLt(t, Num(APP_MAX_TEMP_C))
                  ELSE FALSE
    IN IF IsNone(p) THEN FALSE
       ELSE IF FGe(p, Num(APP_MAX_PRESSURE_KGCM2)) THEN FALSE
       ELSE gate_t

\* Faulty variant: HEAT_ENABLE is not consulted.
HeaterPolicy_NoKill(allow) == allow

\* step_once's heater policy
HeaterPolicy(allow) == IF HEAT_ENABLE THEN allow ELSE FALSE

-----------------------------------------------------------------------------
(* lib/core/actuator.py *)

AUTO_EXTEND_MS == 10000
AUTO_WAIT_MS == 1000
AUTO_RETRACT_MS == 10000

\* The duration of each timed phase.
PhaseDuration(s) ==
    CASE s = "EXTEND"  -> AUTO_EXTEND_MS
      [] s = "WAIT"    -> AUTO_WAIT_MS
      [] s = "RETRACT" -> AUTO_RETRACT_MS
      [] OTHER         -> 0

\* Faulty variant: the new deadline is counted from the old one, not
\* from the tick at which the phase starts.
DeadlineAfter_FromDeadline(n, duration_ms) ==
    IF until_ms = None THEN n + Max(duration_ms, 0)
    ELSE until_ms[1] + Max(duration_ms, 0)

\* _until_ms = now + max(duration_ms, 0): plain integer addition.
DeadlineAfter(n, duration_ms) == n + Max(duration_ms, 0)

\* Faulty variant: the phase is taken as over 5 s before its deadline.
StillInPhase_Early(n, until) == n - until < -5000

\* step()'s test "now - _until_ms < 0": plain integer subtraction.
StillInPhase(n, until) == n - until < 0

start_phase(new_state, dir_sign, duration_ms) ==
    /\ state' = new_state
    /\ IF dir_sign > 0 THEN dir' = 1 /\ set_motor(TRUE, FALSE)
       ELSE IF dir_sign < 0 THEN dir' = -1 /\ set_motor(FALSE, TRUE)
       ELSE dir' = 0 /\ stop_motor
    /\ until_ms' = Some(DeadlineAfter(now, duration_ms))
    /\ jumped' = IF state = "IDLE" THEN {}
                 ELSE IF age >= PhaseDuration(state) + PhaseDuration(new_state)
                      THEN jumped \cup {state}
                      ELSE jumped
    /\ phase_ms' = duration_ms
    /\ age' = 0
    /\ wrapped' = "no"

\* What a call changes when it returns early.
no_actuator_change ==
    /\ UNCHANGED <<actVars, motorVars, phaseObs>>
    /\ motor_cmd' = None

\* Faulty variant: the IDLE test is missing.
start_auto_cycle_Unguarded == start_phase("EXTEND", 1, AUTO_EXTEND_MS)

\* Faulty variant: a trigger during a cycle cancels it.
start_auto_cycle_Cancels ==
    IF state # "IDLE"
    THEN /\ stop_motor
         /\ state' = "IDLE" /\ dir' = 0 /\ until_ms' = None
         /\ jumped' = {} /\ phase_ms' = 0 /\ age' = 0 /\ wrapped' = "no"
    ELSE start_phase("EXTEND", 1, AUTO_EXTEND_MS)

start_auto_cycle ==
    IF state # "IDLE" THEN no_actuator_change
    ELSE start_phase("EXTEND", 1, AUTO_EXTEND_MS)

jog_fwd == start_auto_cycle

\* Faulty variant: jog_rev starts with the retraction.
jog_rev_Reverses ==
    IF state # "IDLE" THEN no_actuator_change
    ELSE start_phase("RETRACT", -1, AUTO_RETRACT_MS)

jog_rev == start_auto_cycle

\* Faulty variants: EXTEND is followed by RETRACT at once; the motor
\* keeps driving forward in WAIT.
AfterPhase_SkipWait(s) ==
    IF s = "EXTEND" THEN <<"RETRACT", -1, AUTO_RETRACT_MS>>
    ELSE <<"RETRACT", -1, AUTO_RETRACT_MS>>

AfterPhase_DriveInWait(s) ==
    IF s = "EXTEND" THEN <<"WAIT", 1, AUTO_WAIT_MS>>
    ELSE <<"RETRACT", -1, AUTO_RETRACT_MS>>

\* Faulty variants: the pause is a state of its own name; a step() that
\* comes after the pause would have been over goes to RETRACT at once.
AfterPhase_Hold(s) ==
    IF s = "EXTEND" THEN <<"HOLD", 0, AUTO_WAIT_MS>>
    ELSE <<"RETRACT", -1, AUTO_RETRACT_MS>>

AfterPhase_CatchUp(s) ==
    IF s = "EXTEND"
    THEN IF now - until_ms[1] >= AUTO_WAIT_MS
         THEN <<"RETRACT", -1, AUTO_RETRACT_MS>>
         ELSE <<"WAIT", 0, AUTO_WAIT_MS>>
    ELSE <<"RETRACT", -1, AUTO_RETRACT_MS>>

\* The phase step() starts when phase s (EXTEND or WAIT) has expired:
\* <<state, dir_sign, duration>>.
AfterPhase(s) ==
    IF s = "EXTEND" THEN <<"WAIT", 0, AUTO_WAIT_MS>>
    ELSE <<"RETRACT", -1, AUTO_RETRACT_MS>>

\* Faulty variants: the deadline is kept; the motor is not stopped.
to_idle_KeepsDeadline ==
    /\ stop_motor
    /\ state' = "IDLE"
    /\ dir' = 0
    /\ until_ms' = until_ms
    /\ jumped' = {}
    /\ phase_ms' = 0
    /\ age' = 0
    /\ wrapped' = "no"

to_idle_NoStop ==
    /\ UNCHANGED motorVars
    /\ motor_cmd' = None
    /\ state' = "IDLE"
    /\ dir' = 0
    /\ until_ms' = None
    /\ jumped' = {}
    /\ phase_ms' = 0
    /\ age' = 0
    /\ wrapped' = "no"

to_idle ==
    /\ stop_motor
    /\ state' = "IDLE"
    /\ dir' = 0
    /\ until_ms' = None
    /\ jumped' = {}
    /\ phase_ms' = 0
    /\ age' = 0
    /\ wrapped' = "no"

step ==
    IF until_ms = None \/ state = "IDLE" THEN no_actuator_change
    ELSE IF StillInPhase(now, until_ms[1]) THEN no_actuator_change
    ELSE IF state \in {"EXTEND", "WAIT"}
         THEN start_phase(AfterPhase(state)[1], AfterPhase(state)[2],
                          AfterPhase(state)[3])
    ELSE IF state = "RETRACT" THEN to_idle
    ELSE to_idle   \* unknown state: fail-safe to IDLE

\* Faulty variant: true only while the motor is driven.
is_moving_MotorOn == motor_dir # 0

is_moving == state # "IDLE"

get_dir == dir

get_motor_dir == motor_dir

\* Faulty variant: stopping the actuator also switches the heater off.
actuator_frame_TouchesSsr ==
    /\ UNCHANGED <<cfgVars, sensVars, alarmVars, brainVars, now,
                   smVars, btnVars, uiVars, dbg>>
    /\ IF state' = "IDLE" /\ state # "IDLE" THEN set_ssr(FALSE)
       ELSE UNCHANGED ssrVars

\* What init, jog_fwd, jog_rev and step leave alone: they call nothing
\* but control.set_motor and read nothing but the clock.
actuator_frame ==
    UNCHANGED <<cfgVars, sensVars, ssrVars, alarmVars, brainVars, now,
                smVars, btnVars, uiVars, dbg>>

get_ui_state ==
    IF state = "IDLE" THEN "IDLE"
    ELSE IF state = "EXTEND" THEN "EXT+"
    ELSE IF state = "WAIT" THEN "WAIT"
    ELSE IF state = "RETRACT" THEN "EXT-"
    ELSE "IDLE"

-----------------------------------------------------------------------------
(* lib/core/actuator_sm.py: the {IDLE, MOVING} variant *)

\* How long to run the motor on a jog (ms).
JOG_MS == 800

sm_init ==
    /\ sm_state' = "IDLE"
    /\ sm_dir' = 0
    /\ sm_until_ms' = None
    /\ stop_motor

sm_start_move(dir_sign) ==
    IF dir_sign = 0
    THEN UNCHANGED <<smVars, motorVars>> /\ motor_cmd' = None
    ELSE /\ sm_until_ms' = Some(now + JOG_MS)
         /\ sm_dir' = (IF dir_sign > 0 THEN 1 ELSE -1)
         /\ sm_state' = "MOVING"
         /\ IF dir_sign > 0 THEN set_motor(TRUE, FALSE)
            ELSE set_motor(FALSE, TRUE)

sm_jog_fwd == sm_start_move(1)

sm_jog_rev == sm_start_move(-1)

sm_step ==
    IF sm_state # "MOVING" \/ sm_until_ms = None
    THEN UNCHANGED <<smVars, motorVars>> /\ motor_cmd' = None
    ELSE IF now - sm_until_ms[1] >= 0
         THEN /\ stop_motor
              /\ sm_state' = "IDLE"
              /\ sm_dir' = 0
              /\ sm_until_ms' = None
         ELSE UNCHANGED <<smVars, motorVars>> /\ motor_cmd' = None

\* What the module's functions leave alone
sm_frame ==
    UNCHANGED <<cfgVars, sensVars, ssrVars, alarmVars, brainVars, now,
                actVars, phaseObs, btnVars, uiVars, dbg, loopVars>>

-----------------------------------------------------------------------------
(* lib/core/units.py and lib/core/ui_controller.py *)

set_units(mode) == current_units' = mode

get_units == current_units

\* Order of pages when cycling with BTN1
PAGES == <<"status", "limits", "debug">>

\* _page_idx counts from 0, a TLA+ sequence from 1.
current_page_id == PAGES[page_idx + 1]

\* Faulty variant: the index runs past the last page.
NextPageIdx_NoWrap(idx) == idx + 1

\* (_page_idx + 1) % len(_PAGES)
NextPageIdx(idx) == (idx + 1) % Len(PAGES)

next_page == page_idx' = NextPageIdx(page_idx)

\* The mode toggle_units hands to set_units when the current one is cur
ToggledUnits(cur) ==
    IF cur = UNITS_METRIC THEN UNITS_USCS ELSE UNITS_METRIC

toggle_units == set_units(ToggledUnits(get_units))

\* ui_controller.init()
ui_init ==
    /\ page_idx' = 0
    /\ set_units(DEFAULT_UNITS)

\* What ui_controller's functions leave alone
ui_frame ==
    UNCHANGED <<cfgVars, sensVars, ssrVars, motorVars, alarmVars, brainVars,
                actVars, phaseObs, smVars, btnVars, dbg, loopVars, now>>

-----------------------------------------------------------------------------
(* lib/drivers/buttons.py *)

\* Debounce / timing thresholds (ms)
short_ms == 50
long_ms == 800

\* Button.__init__ with the pin reading `level`.  last_change_ms is
\* written by poll and read by nothing: it is left out.
Button(level, name) ==
    [name |-> name, last_state |-> level, press_start_ms |-> None]

\* Faulty variants: a release inside the debounce time counts as a short
\* press; a long press is reported while the button is still held.
ButtonEmits_NoDebounce(b, level, now_ms) ==
    IF level = b.last_state THEN << >>
    ELSE IF level = 0 THEN << >>
    ELSE IF b.press_start_ms = None THEN << >>
    ELSE LET dur == now_ms - b.press_start_ms[1]
         IN IF dur >= long_ms THEN << <<b.name, "LONG">> >>
            ELSE IF dur >= 0 THEN << <<b.name, "SHORT">> >>
            ELSE << >>

ButtonEmits_WhileHeld(b, level, now_ms) ==
    IF b.press_start_ms = None THEN << >>
    ELSE LET dur == now_ms - b.press_start_ms[1]
         IN IF dur >= long_ms THEN << <<b.name, "LONG">> >>
            ELSE IF level = b.last_state \/ level = 0 THEN << >>
            ELSE IF dur >= short_ms THEN << <<b.name, "SHORT">> >>
            ELSE << >>

\* What Button.poll hands to the callback when the pin reads `level` at
\* now_ms: a sequence of no event or one, <<name, "LONG">> standing for
\* name + "_LONG".
ButtonEmits(b, level, now_ms) ==
    IF level = b.last_state THEN << >>
    ELSE IF level = 0 THEN << >>
    ELSE IF b.press_start_ms = None THEN << >>
    ELSE LET dur == now_ms - b.press_start_ms[1]
         IN IF dur >= long_ms THEN << <<b.name, "LONG">> >>
            ELSE IF dur >= short_ms THEN << <<b.name, "SHORT">> >>
            ELSE << >>

\* The Button after that poll
ButtonAfter(b, level, now_ms) ==
    IF level = b.last_state THEN b
    ELSE IF level = 0
         THEN [b EXCEPT !.last_state = level,
                        !.press_start_ms = Some(now_ms)]
         ELSE [b EXCEPT !.last_state = level, !.press_start_ms = None]

-----------------------------------------------------------------------------
(* The operations *)

Booted == motor_fwd_pin # None

\* main(): control.init(); sensors.init(); ...; actuator.init();
\* buttons.init(on_button_event), the two button pins reading l1 and l2
boot(l1, l2) ==
    /\ ~Booted
    \* control.init(): init_io binds the pins, every output off
    /\ control_ssr_on' = FALSE
    /\ ssr_pin' = write_ssr(Some(IF SSR_ACTIVE_HIGH THEN 0 ELSE 1), FALSE)
    /\ alarm_on' = FALSE
    /\ alarm_pin' = write_alarm(Some(IF ALARM_ACTIVE_HIGH THEN 0 ELSE 1),
                                FALSE)
    \* sensors.init()
    /\ pressure_adc' = Some("ADC")
    /\ tc_spi' = Some("SPI")
    \* actuator.init(): IDLE, stop_motor on the pins init_io bound
    /\ state' = "IDLE"
    /\ dir' = 0
    /\ until_ms' = None
    /\ LET c    == SetMotorArgs(FALSE, FALSE)
           pins == write_motor(Some(0), Some(0), c[1], c[2])
       IN /\ motor_dir' = (IF c[1] THEN 1 ELSE IF c[2] THEN -1 ELSE 0)
          /\ motor_fwd_pin' = pins[1]
          /\ motor_rev_pin' = pins[2]
          /\ motor_cmd' = Some(<<FALSE, FALSE>>)
    /\ age' = 0
    /\ wrapped' = "no"
    /\ jumped' = {}
    /\ phase_ms' = 0
    \* ui_controller.init()
    /\ ui_init
    \* buttons.init(on_button_event)
    /\ btn_mgr' = Some(<<Button(l1, "BTN1"), Button(l2, "BTN2")>>)
    /\ emitted' = << >>
    /\ op' = "boot"
    /\ UNCHANGED <<cfgVars, brainVars, ssr_cmd, now, loopVars, smVars, dbg>>

\* main() with both buttons released (the inputs are pulled up)
Boot == boot(1, 1)

\* main() with the buttons in any position
BootHeld(l1, l2) == boot(l1, l2)

\* brain.step_once(), the thermocouple answering `word` and the ADC `raw`
step_once(word, raw) ==
    LET t     == read_tc_c(word)
        p     == read_pressure_kgcm2(Some(raw))
        allow == AllowHeat(t, p)
        on    == HeaterPolicy(allow)
    IN /\ tc_raw' = read_tc_raw32(word)
       /\ volts_read' = read_pressure_volts(Some(raw))
       /\ prev_allow' = (IF brain_ran THEN Some(allow_heat) ELSE None)
       /\ t_c' = t
       /\ p_kg' = p
       /\ allow_heat' = allow
       /\ brain_ssr_on' = on
       /\ set_ssr(on)
       /\ brain_ran' = TRUE
       /\ op' = "step_once"
       /\ motor_cmd' = None
       /\ UNCHANGED <<cfgVars, sensVars, motorVars, actVars, phaseObs, now,
                      alarmVars, smVars, btnVars, uiVars, dbg>>

\* A call of brain.step_once() on its own
StepOnce(word, raw) ==
    /\ step_once(word, raw)
    /\ UNCHANGED loopVars

JogFwd ==
    /\ Booted
    /\ jog_fwd
    /\ op' = "jog_fwd"
    /\ actuator_frame
    /\ UNCHANGED loopVars

JogRev ==
    /\ Booted
    /\ jog_rev
    /\ op' = "jog_rev"
    /\ actuator_frame
    /\ UNCHANGED loopVars

ActStep ==
    /\ Booted
    /\ step
    /\ op' = "step"
    /\ actuator_frame
    /\ UNCHANGED loopVars

\* A direct call _start_phase(new_state, dir_sign, duration_ms)
StartPhaseCall(new_state, dir_sign, duration_ms) ==
    /\ Booted
    /\ start_phase(new_state, dir_sign, duration_ms)
    /\ op' = "start_phase"
    /\ actuator_frame
    /\ UNCHANGED loopVars

\* The durations _start_phase is called with directly: negative, zero and
\* AUTO_WAIT_MS.
CALL_DURATIONS == {-AUTO_WAIT_MS, 0, AUTO_WAIT_MS}

\* The calls of actuator_sm
SmInit ==
    /\ Booted
    /\ sm_init
    /\ op' = "sm_init"
    /\ sm_frame

SmJogFwd ==
    /\ Booted
    /\ sm_jog_fwd
    /\ op' = "sm_jog_fwd"
    /\ sm_frame

SmJogRev ==
    /\ Booted
    /\ sm_jog_rev
    /\ op' = "sm_jog_rev"
    /\ sm_frame

SmStep ==
    /\ Booted
    /\ sm_step
    /\ op' = "sm_step"
    /\ sm_frame

\* Direct calls of ui_controller
UiInit ==
    /\ Booted
    /\ ui_init
    /\ op' = "ui_init"
    /\ motor_cmd' = None
    /\ ui_frame

NextPage ==
    /\ Booted
    /\ next_page
    /\ UNCHANGED current_units
    /\ op' = "next_page"
    /\ motor_cmd' = None
    /\ ui_frame

ToggleUnits ==
    /\ Booted
    /\ toggle_units
    /\ UNCHANGED page_idx
    /\ op' = "toggle_units"
    /\ motor_cmd' = None
    /\ ui_frame

\* test_sensors.py: the debug decoder and the production decoder given
\* the word the thermocouple answers
DebugSample(word) ==
    /\ read_tc_raw32(word) # None
    /\ dbg' = Some([raw     |-> word,
                     debug   |-> test_decode_tc_c_from_raw(word),
                     sensors |-> decode_tc_c_from_raw(word)])
    /\ op' = "debug_sample"
    /\ motor_cmd' = None
    /\ UNCHANGED <<cfgVars, sensVars, ssrVars, motorVars, alarmVars,
                   brainVars, actVars, phaseObs, smVars, btnVars, uiVars,
                   loopVars, now>>

\* A direct call control.set_motor(fwd, rev)
SetMotorCall(fwd, rev) ==
    /\ Booted
    /\ set_motor(fwd, rev)
    /\ op' = "set_motor"
    /\ UNCHANGED <<cfgVars, sensVars, ssrVars, brainVars, actVars, phaseObs,
                   now, loopVars, alarmVars, smVars, btnVars, uiVars, dbg>>

\* The clock advances by d ms; ticks_ms() wraps at TICKS_PERIOD.
\* age: the ms truly passed since the phase started (saturating);
\* wrapped: whether the counter has wrapped since then, and if so whether
\* the phase was still truly running ("running") or already over ("late").
DELTAS == {QUANTUM, 25 * QUANTUM}

advance(d) ==
    /\ now' = (now + d) % TICKS_PERIOD
    /\ age' = IF state = "IDLE" THEN 0 ELSE Min(age + d, TICKS_PERIOD)
    /\ wrapped' = IF state = "IDLE" \/ now + d < TICKS_PERIOD THEN wrapped
                  ELSE IF wrapped # "no" THEN wrapped
                  ELSE IF age < Max(phase_ms, 0) THEN "running"
                  ELSE "late"
    /\ motor_cmd' = None
    /\ UNCHANGED <<cfgVars, sensVars, ssrVars, motorVars, brainVars, actVars,
                   alarmVars, jumped, phase_ms, smVars, btnVars, uiVars, dbg>>

Tick(d) ==
    /\ advance(d)
    /\ op' = "tick"
    /\ UNCHANGED loopVars

-----------------------------------------------------------------------------
(* main.py: the loop *)

LOOP_PERIOD_MS == 100

\* What a Button.poll hands to the callback: nothing, or one event.
ButtonEvents(name) == {None, Some(<<name, "SHORT">>), Some(<<name, "LONG">>)}

\* Faulty variant: a short press of BTN1 starts the jog too.
on_button_event_ShortJogs(evt) ==
    IF evt = <<"BTN1", "SHORT">> THEN
        next_page /\ UNCHANGED current_units /\ jog_fwd
    ELSE IF evt = <<"BTN2", "SHORT">> THEN
        toggle_units /\ UNCHANGED page_idx /\ no_actuator_change
    ELSE IF evt = <<"BTN1", "LONG">> THEN jog_fwd /\ UNCHANGED uiVars
    ELSE IF evt = <<"BTN2", "LONG">> THEN jog_rev /\ UNCHANGED uiVars
    ELSE no_actuator_change /\ UNCHANGED uiVars

\* on_button_event(evt): the short presses go to ui_controller, the long
\* ones to the actuator.
on_button_event(evt) ==
    IF evt = <<"BTN1", "SHORT">> THEN
        next_page /\ UNCHANGED current_units /\ no_actuator_change
    ELSE IF evt = <<"BTN2", "SHORT">> THEN
        toggle_units /\ UNCHANGED page_idx /\ no_actuator_change
    ELSE IF evt = <<"BTN1", "LONG">> THEN jog_fwd /\ UNCHANGED uiVars
    ELSE IF evt = <<"BTN2", "LONG">> THEN jog_rev /\ UNCHANGED uiVars
    ELSE no_actuator_change /\ UNCHANGED uiVars

\* What on_button_event leaves alone
button_frame ==
    UNCHANGED <<cfgVars, sensVars, ssrVars, alarmVars, brainVars, now,
                smVars, dbg>>

\* buttons.poll(), the i-th Button of the manager's list, its pin reading
\* `level`: Button.poll(ticks_ms(), on_button_event)
ButtonPoll(i, level) ==
    /\ btn_mgr # None
    /\ LET b  == btn_mgr[1][i]
           ev == ButtonEmits(b, level, now)
       IN /\ btn_mgr' = Some([btn_mgr[1] EXCEPT
                                 ![i] = ButtonAfter(b, level, now)])
          /\ emitted' = ev
          /\ IF ev = << >> THEN no_actuator_change /\ UNCHANGED uiVars
             ELSE on_button_event(ev[1])
    /\ op' = (IF i = 1 THEN "poll_btn1" ELSE "poll_btn2")
    /\ button_frame
    /\ UNCHANGED loopVars

\* The tick values at which the buttons are polled: a press at 0 is
\* released too early at 49, as a short press at 50 and 799, as a long
\* one at 800; the last value of the counter comes before a wrap.
BTN_TICKS == {0, 49, 50, 799, 800, TICKS_PERIOD - 1}

\* The clock runs on to the tick value t, wrapping if t is behind.
TickTo(t) ==
    /\ t # now
    /\ advance((t - now) % TICKS_PERIOD)
    /\ op' = "tick"
    /\ UNCHANGED loopVars

\* A call on_button_event(evt) with any event string
EVENTS ==
    { <<n, k>> : n \in {"BTN1", "BTN2", "BTN3"},
                 k \in {"SHORT", "LONG", "DOUBLE"} }

ButtonEvent(evt) ==
    /\ Booted
    /\ on_button_event(evt)
    /\ emitted' = <<evt>>
    /\ op' = "event"
    /\ button_frame
    /\ UNCHANGED <<loopVars, btn_mgr>>

\* Faulty variant: actuator.step() runs before brain.step_once().
StageAfter_ActFirst(stage) ==
    CASE stage = "btn1"  -> "btn2"
      [] stage = "btn2"  -> "act"
      [] stage = "act"   -> "brain"
      [] stage = "brain" -> "ui"
      [] stage = "ui"    -> "sleep"
      [] stage = "sleep" -> "btn1"

\* The order of _one_step: buttons.poll() (BTN1, then BTN2),
\* brain.step_once(), actuator.step(), the readings for the UI with
\* make_page and render, sleep_ms.
StageAfter(stage) ==
    CASE stage = "btn1"  -> "btn2"
      [] stage = "btn2"  -> "brain"
      [] stage = "brain" -> "act"
      [] stage = "act"   -> "ui"
      [] stage = "ui"    -> "sleep"
      [] stage = "sleep" -> "btn1"

\* buttons.poll(), one button of the manager's list: its event, if any, is
\* handed to on_button_event
LoopPoll(name, evt) ==
    /\ Booted
    /\ pc = (IF name = "BTN1" THEN "btn1" ELSE "btn2")
    /\ IF evt = None THEN no_actuator_change /\ UNCHANGED uiVars
       ELSE on_button_event(evt[1])
    /\ op' = (IF name = "BTN1" THEN "poll_btn1" ELSE "poll_btn2")
    /\ pc' = StageAfter(pc)
    /\ button_frame
    /\ UNCHANGED <<snap, btnVars>>

LoopBrain(word, raw) ==
    /\ Booted
    /\ pc = "brain"
    /\ step_once(word, raw)
    /\ pc' = StageAfter(pc)
    /\ UNCHANGED snap

LoopAct ==
    /\ Booted
    /\ pc = "act"
    /\ step
    /\ op' = "step"
    /\ pc' = StageAfter(pc)
    /\ actuator_frame
    /\ UNCHANGED snap

\* Steps 4) and 5) of _one_step: the sensors are read again, the
\* thermocouple answering `word` and the ADC `raw`, and the values go to
\* make_page with the brain's and the actuator's getters.
LoopSnapshot(word, raw) ==
    /\ Booted
    /\ pc = "ui"
    /\ snap' = Some([temp        |-> read_tc_c(word),
                      pressure    |-> read_pressure_kgcm2(Some(raw)),
                      ssr         |-> brain_ssr_on,
                      allow_heat  |-> allow_heat,
                      act_state   |-> get_ui_state])
    /\ op' = "snapshot"
    /\ motor_cmd' = None
    /\ pc' = StageAfter(pc)
    /\ UNCHANGED <<cfgVars, sensVars, ssrVars, motorVars, brainVars, actVars,
                   phaseObs, now, alarmVars, smVars, btnVars, uiVars, dbg>>

\* sleep_ms(LOOP_PERIOD_MS), then _one_step returns and its locals are
\* gone.  The clock is visited in whole quanta: the period is rounded up.
LoopSleep ==
    /\ Booted
    /\ pc = "sleep"
    /\ advance(((LOOP_PERIOD_MS + QUANTUM - 1) \div QUANTUM) * QUANTUM)
    /\ snap' = None
    /\ op' = "sleep"
    /\ pc' = StageAfter(pc)

\* The readings the loop sees: 124.75 C and 125.25 C, about 0.5 kg/cm2
\* and APP_MAX_PRESSURE_KGCM2.
LOOP_WORDS == {TcWord(499, 0, 0), TcWord(501, 0, 0)}
LOOP_RAWS == {1200, 2635}

-----------------------------------------------------------------------------
(* Specifications *)

\* The modules as imported, under any configuration of the surface.
Init ==
    /\ HEAT_ENABLE \in BOOLEAN
    /\ \E c \in CALIBRATIONS :
          PRESSURE_V_PIN_MIN = c[1] /\ PRESSURE_V_PIN_MAX = c[2]
    /\ pressure_adc = None /\ tc_spi = None
    /\ ssr_pin = None /\ motor_fwd_pin = None /\ motor_rev_pin = None
    /\ now \in {0, TICKS_PERIOD - 5 * QUANTUM}
    /\ t_c = NaN /\ p_kg = NaN
    /\ allow_heat = FALSE /\ brain_ssr_on = FALSE
    /\ control_ssr_on = FALSE /\ motor_dir = 0
    /\ state = "IDLE" /\ dir = 0 /\ until_ms = None
    /\ op = "import" /\ brain_ran = FALSE
    /\ tc_raw = None /\ volts_read = None /\ prev_allow = None
    /\ pc = "btn1" /\ snap = None
    /\ alarm_on = FALSE /\ alarm_pin = None
    /\ jumped = {} /\ phase_ms = 0
    /\ sm_state = "IDLE" /\ sm_dir = 0 /\ sm_until_ms = None
    /\ btn_mgr = None /\ emitted = << >>
    /\ page_idx = 0 /\ current_units = DEFAULT_UNITS
    /\ dbg = None
    /\ ssr_cmd = None /\ motor_cmd = None
    /\ age = 0 /\ wrapped = "no"

\* The modules as imported, config.py as shipped
InitShipped ==
    /\ Init
    /\ HEAT_ENABLE = FALSE
    /\ PRESSURE_V_PIN_MIN = 334 /\ PRESSURE_V_PIN_MAX = 2997

NextBrain ==
    \/ Boot
    \/ \E word \in TC_WORDS, raw \in ADC_SAMPLES : StepOnce(word, raw)

NextAct ==
    \/ Boot
    \/ JogFwd
    \/ JogRev
    \/ ActStep
    \/ \E d \in DELTAS : Tick(d)

NextDrv ==
    \/ NextAct
    \/ \E fwd \in BOOLEAN, rev \in BOOLEAN : SetMotorCall(fwd, rev)

\* The direct calls come while the actuator is idle, with the phases and
\* directions the module itself uses.
NextPhaseCalls ==
    \/ Boot
    \/ \E call \in {<<"EXTEND", 1>>, <<"WAIT", 0>>, <<"RETRACT", -1>>},
          duration_ms \in CALL_DURATIONS :
            /\ state = "IDLE"
            /\ StartPhaseCall(call[1], call[2], duration_ms)
    \/ ActStep
    \/ \E d \in DELTAS : Tick(d)

\* The {IDLE, MOVING} variant in place of actuator.py
NextSm ==
    \/ Boot
    \/ SmInit
    \/ SmJogFwd
    \/ SmJogRev
    \/ SmStep
    \/ \E d \in DELTAS : Tick(d)

\* ui_controller called directly
NextUi ==
    \/ Boot
    \/ UiInit
    \/ NextPage
    \/ ToggleUnits
    \/ \E d \in DELTAS : Tick(d)

\* test_sensors.py sampling the thermocouple
NextDebug ==
    \/ Boot
    \/ \E word \in TC_WORDS : DebugSample(word)

\* The buttons: polls of either Button at the tick values of BTN_TICKS
NextBtn ==
    \/ \E l1 \in {0, 1}, l2 \in {0, 1} : BootHeld(l1, l2)
    \/ \E i \in {1, 2}, level \in {0, 1} : ButtonPoll(i, level)
    \/ ActStep
    \/ \E t \in BTN_TICKS : TickTo(t)

\* on_button_event called with any event, brain.step_once in between
NextEvents ==
    \/ Boot
    \/ \E evt \in EVENTS : ButtonEvent(evt)
    \/ \E word \in LOOP_WORDS, raw \in LOOP_RAWS : StepOnce(word, raw)

NextLoop ==
    \/ Boot
    \/ \E evt \in ButtonEvents("BTN1") : LoopPoll("BTN1", evt)
    \/ \E evt \in ButtonEvents("BTN2") : LoopPoll("BTN2", evt)
    \/ \E word \in LOOP_WORDS, raw \in LOOP_RAWS : LoopBrain(word, raw)
    \/ LoopAct
    \/ \E word \in LOOP_WORDS, raw \in LOOP_RAWS : LoopSnapshot(word, raw)
    \/ LoopSleep

Next == NextBrain \/ NextAct

\* The heater path (sensors, brain, SSR) and the actuator path (clock,
\* actuator, motor) share no program variable: step_once reads neither the clock
\* nor the actuator, and the actuator reads no sensor.  Each path is
\* checked under its own specification; Spec is their interleaving.

\* The heater path: sensors, brain, SSR
SpecBrain == Init /\ [][NextBrain]_vars

\* The actuator path: clock, actuator, motor
SpecAct == InitShipped /\ [][NextAct]_vars

\* The actuator path with direct calls of the motor driver
SpecDrv == InitShipped /\ [][NextDrv]_vars

\* step() keeps being called and the clock keeps advancing
SpecActFair ==
    /\ SpecAct
    /\ WF_vars(\E d \in DELTAS : Tick(d))
    /\ WF_vars(ActStep)
    /\ SF_vars(ActStep /\ state' # state)

\* _start_phase called directly with a phase and any of CALL_DURATIONS
SpecPhase == InitShipped /\ [][NextPhaseCalls]_vars

\* config.py as shipped but for HEAT_ENABLE
InitLoop ==
    /\ Init
    /\ PRESSURE_V_PIN_MIN = 334 /\ PRESSURE_V_PIN_MAX = 2997

\* actuator_sm driven by its callers
SpecSm == InitShipped /\ [][NextSm]_vars

\* ui_controller driven by its callers
SpecUi == InitShipped /\ [][NextUi]_vars

\* The two thermocouple decoders on the same words
SpecDebug == Init /\ [][NextDebug]_vars

\* The buttons polled at any of BTN_TICKS
SpecBtn == InitShipped /\ [][NextBtn]_vars

\* on_button_event called directly
SpecEvents == InitLoop /\ [][NextEvents]_vars

\* main(): the initialisation, then _one_step for ever
SpecLoop == InitLoop /\ [][NextLoop]_vars

Spec == Init /\ [][Next]_vars

-----------------------------------------------------------------------------
(* The claims *)

\* C1 (the claim as stated; the code violates it): after every step_once,
\* allow_heat is false whenever that tick's pressure reading is invalid
\* (NaN, what read_pressure_kgcm2 yields without a voltage or with a
\* calibration span <= 0) or at or above APP_MAX_PRESSURE_KGCM2.
C1_FailClosedOnPressure ==
    (brain_ran /\ (IsNaN(p_kg) \/ FGe(p_kg, Num(APP_MAX_PRESSURE_KGCM2))))
        => ~allow_heat

\* C2: after every step_once the heater command is allow_heat AND
\* HEAT_ENABLE and that value is what set_ssr was handed and tracks; with
\* HEAT_ENABLE false the SSR is off in every reachable state.
C2_KillSwitch ==
    /\ brain_ran => /\ brain_ssr_on = (allow_heat /\ HEAT_ENABLE)
                    /\ ssr_cmd = Some(brain_ssr_on)
                    /\ control_ssr_on = brain_ssr_on
    /\ ~HEAT_ENABLE => /\ ~brain_ssr_on
                       /\ ~control_ssr_on
                       /\ ssr_pin # Some(1)

\* C2 witness: a tick that allows heat while HEAT_ENABLE is false, the SSR
\* pin bound and low.
C2_Witness ==
    /\ op = "step_once" /\ allow_heat /\ ~HEAT_ENABLE
    /\ ssr_cmd = Some(FALSE) /\ ssr_pin = Some(0)

\* C3: a tick whose temperature reading is invalid (NaN: fault bit set, or
\* no raw word) leaves allow_heat false and the heater off, whatever the
\* pressure reading and HEAT_ENABLE are.
C3_InvalidTempDeniesHeat ==
    (brain_ran /\ IsNaN(t_c)) =>
        /\ ~allow_heat
        /\ ~brain_ssr_on
        /\ ~control_ssr_on
        /\ ssr_pin # Some(1)

\* C3 witness: a faulted thermocouple word read with a good pressure and
\* HEAT_ENABLE true.
C3_Witness ==
    /\ op = "step_once" /\ IsNaN(t_c) /\ HEAT_ENABLE
    /\ IsNum(p_kg) /\ p_kg.v < APP_MAX_PRESSURE_KGCM2
    /\ ~allow_heat /\ ssr_pin = Some(0)

\* C4: with a valid pressure below the limit, allow_heat is true exactly
\* when the temperature reading t is a number with 0 < t < APP_MAX_TEMP_C.
C4_TemperatureWindow ==
    (brain_ran /\ IsNum(p_kg) /\ p_kg.v < APP_MAX_PRESSURE_KGCM2) =>
        (allow_heat <=> (IsNum(t_c) /\ 0 < t_c.v /\ t_c.v < APP_MAX_TEMP_C))

\* C4 witness: the boundary t = APP_MAX_TEMP_C under a good pressure is
\* denied.
C4_Witness ==
    /\ op = "step_once" /\ IsNum(p_kg) /\ p_kg.v < APP_MAX_PRESSURE_KGCM2
    /\ t_c = Num(APP_MAX_TEMP_C) /\ ~allow_heat

\* C5: a jog while the state is EXTEND, WAIT or RETRACT changes neither
\* state, direction, deadline nor the motor outputs, and issues no motor
\* command.
C5_SingleFlight ==
    [][ ((JogFwd \/ JogRev) /\ state \in {"EXTEND", "WAIT", "RETRACT"})
          => (UNCHANGED <<state, dir, until_ms, motorVars>>
              /\ motor_cmd' = None) ]_vars

\* C5 witness: a jog was just dropped during RETRACT.
C5_Witness ==
    op \in {"jog_fwd", "jog_rev"} /\ state = "RETRACT" /\ motor_cmd = None

PhaseDir(s) ==
    CASE s = "IDLE" -> 0 [] s = "EXTEND" -> 1
      [] s = "WAIT" -> 0 [] s = "RETRACT" -> -1

NextPhase(s) ==
    CASE s = "IDLE" -> "EXTEND" [] s = "EXTEND" -> "WAIT"
      [] s = "WAIT" -> "RETRACT" [] s = "RETRACT" -> "IDLE"

C7_WraparoundSafe ==
    (state # "IDLE" /\ wrapped = "running" /\ 2 * age < TICKS_PERIOD) =>
        (StillInPhase(now, until_ms[1]) <=> age < PhaseDuration(state))

\* C8 (the claim as stated; the code violates it): a started cycle
\* eventually reaches IDLE with the motor stopped.
C8_CycleCompletes ==
    (state # "IDLE") ~> (state = "IDLE" /\ motor_dir = 0)

\* C9: the direction is a function of the phase.
C9_DirectionFromPhase == dir = PhaseDir(state)

\* C9 witness: step() has just started RETRACT, direction -1.
C9_Witness == op = "step" /\ state = "RETRACT" /\ dir = -1

\* C10: the two drive pins are never both high, and set_motor(True, True)
\* leaves the tracked direction 0 and both pins low.
C10_MotorExclusive ==
    /\ ~(motor_fwd_pin = Some(1) /\ motor_rev_pin = Some(1))
    /\ (op = "set_motor" /\ motor_cmd = Some(<<TRUE, TRUE>>)) =>
          /\ motor_dir = 0
          /\ motor_fwd_pin = Some(0)
          /\ motor_rev_pin = Some(0)

\* C10 witness: set_motor(True, True) was called while the actuator was
\* driving forward.
C10_Witness ==
    /\ op = "set_motor" /\ motor_cmd = Some(<<TRUE, TRUE>>)
    /\ state = "EXTEND" /\ motor_dir = 0

Field14(raw) == (raw.hi \div 4) % 16384
FaultBit(raw) == raw.hi % 2
Signed14(f) == IF f >= 8192 THEN f - 16384 ELSE f

\* C11 (the claim as stated; the code violates it): a word with the fault
\* bit clear decodes to 0.25 C times bits [31:18] read as a two's-complement
\* 14-bit integer.
C11_SignExtension ==
    (brain_ran /\ tc_raw # None /\ FaultBit(tc_raw[1]) = 0) =>
        t_c = Num(25 * Signed14(Field14(tc_raw[1])))

\* C12: a word with the fault bit set decodes to the invalid reading,
\* whatever its numeric field.
C12_FaultInvalid ==
    (brain_ran /\ tc_raw # None /\ FaultBit(tc_raw[1]) = 1) => IsNaN(t_c)

\* C12 witness: a faulted word whose field reads 80 C was decoded.
C12_Witness ==
    /\ op = "step_once" /\ tc_raw # None
    /\ FaultBit(tc_raw[1]) = 1 /\ Field14(tc_raw[1]) = 320 /\ IsNaN(t_c)

\* C13: every word that agrees with the word just read on bits [31:18] and
\* bit 16 decodes to the same reading and gives the same allow_heat,
\* whatever its low half (sub-flags, cold junction) is.
C13_OnlyFaultBitGates ==
    (brain_ran /\ tc_raw # None) =>
        \A w \in TC_WORDS :
            (Field14(w) = Field14(tc_raw[1]) /\ FaultBit(w) = FaultBit(tc_raw[1]))
                => /\ decode_tc_c_from_raw(w) = t_c
                   /\ AllowHeat(decode_tc_c_from_raw(w), p_kg) = allow_heat

\* C13 witness: a word with all three sub-flags and a cold junction set and
\* the fault bit clear was read as 80 C and heat allowed.
C13_Witness ==
    /\ op = "step_once" /\ tc_raw = Some(TcWord(320, 0, 6407))
    /\ t_c = Num(8000) /\ allow_heat

\* C14: with v_max > v_min the pressure is p_min at and below v_min, p_max
\* at and above v_max, the linear interpolation in between (to the
\* resolution of the fixed point), and always within [p_min, p_max].
C14_PressureMapping ==
    (brain_ran /\ volts_read # None /\ PRESSURE_V_PIN_MAX > PRESSURE_V_PIN_MIN) =>
        LET v      == volts_read[1]
            span_v == PRESSURE_V_PIN_MAX - PRESSURE_V_PIN_MIN
            span_p == PRESSURE_P_MAX_KGCM2 - PRESSURE_P_MIN_KGCM2
            dp     == p_kg.v - PRESSURE_P_MIN_KGCM2
        IN /\ IsNum(p_kg)
           /\ PRESSURE_P_MIN_KGCM2 =< p_kg.v /\ p_kg.v =< PRESSURE_P_MAX_KGCM2
           /\ v =< PRESSURE_V_PIN_MIN => p_kg.v = PRESSURE_P_MIN_KGCM2
           /\ v >= PRESSURE_V_PIN_MAX => p_kg.v = PRESSURE_P_MAX_KGCM2
           /\ (PRESSURE_V_PIN_MIN =< v /\ v =< PRESSURE_V_PIN_MAX) =>
                 /\ span_v * dp =< (v - PRESSURE_V_PIN_MIN) * span_p
                 /\ (v - PRESSURE_V_PIN_MIN) * span_p < span_v * (dp + 1)

\* C14 witness: a full-scale voltage above v_max was mapped to p_max.
C14_Witness ==
    /\ op = "step_once" /\ volts_read = Some(3300)
    /\ PRESSURE_V_PIN_MAX > PRESSURE_V_PIN_MIN
    /\ p_kg = Num(PRESSURE_P_MAX_KGCM2)

\* C15: with a calibration span <= 0 every voltage maps to the invalid
\* reading.
C15_MisconfigurationGuard ==
    (brain_ran /\ volts_read # None /\ PRESSURE_V_PIN_MAX - PRESSURE_V_PIN_MIN =< 0)
        => IsNaN(p_kg)

\* C15 witness: a voltage was mapped under a negative span.
C15_Witness ==
    /\ op = "step_once" /\ volts_read = Some(967)
    /\ PRESSURE_V_PIN_MAX < PRESSURE_V_PIN_MIN /\ IsNaN(p_kg)

\* C16: within an iteration of the loop the operations follow one another
\* in a fixed order: the poll of BTN1, the poll of BTN2, brain.step_once(),
\* actuator.step(), the display snapshot, the sleep; a cycle is started
\* only by a poll; actuator.step() runs right after the step_once whose
\* heater command has been applied to the SSR.
C16_TickOrder ==
    [][ /\ op' = "poll_btn1" => op \in {"boot", "sleep"}
        /\ op' = "poll_btn2" => op = "poll_btn1"
        /\ op' = "step_once" => op = "poll_btn2"
        /\ op' = "step" => /\ op = "step_once"
                           /\ ssr_cmd = Some(brain_ssr_on)
                           /\ control_ssr_on = brain_ssr_on
        /\ op' = "snapshot" => op = "step"
        /\ op' = "sleep" => op = "snapshot"
        /\ (state = "IDLE" /\ state' # "IDLE")
              => op' \in {"poll_btn1", "poll_btn2"} ]_vars

\* C16 witness: the snapshot of an iteration whose poll started a cycle
\* and whose step_once switched the heater on.
C16_Witness ==
    /\ op = "snapshot" /\ snap # None /\ snap[1].act_state = "EXT+"
    /\ age = 0 /\ control_ssr_on /\ snap[1].ssr

\* C17 (the claim as stated; the code violates it): the temperature and
\* the pressure of the display snapshot are the readings this tick's
\* step_once computed allow_heat and the heater command from, and the
\* snapshot carries that allow_heat and that heater command.
C17_SnapshotConsistent ==
    snap # None =>
        /\ snap[1].temp = t_c
        /\ snap[1].pressure = p_kg
        /\ snap[1].allow_heat = allow_heat
        /\ snap[1].ssr = brain_ssr_on

\* C18: after every step_once, allow_heat and the heater command are the
\* same function of that tick's two readings, the limits and HEAT_ENABLE
\* whatever the run before it was; good readings permit heat whatever the
\* previous tick decided.
C18_NoHistory ==
    brain_ran =>
        LET t_ok  == IsNum(t_c) /\ 0 < t_c.v /\ t_c.v < APP_MAX_TEMP_C
            p_bad == IsNone(p_kg)
                       \/ (IsNum(p_kg) /\ p_kg.v >= APP_MAX_PRESSURE_KGCM2)
        IN /\ allow_heat = (t_ok /\ ~p_bad)
           /\ brain_ssr_on = (HEAT_ENABLE /\ allow_heat)
           /\ control_ssr_on = brain_ssr_on

\* C18 witness: a tick that allows heat and switches the heater on right
\* after a tick that denied it.
C18_Witness ==
    /\ op = "step_once" /\ prev_allow = Some(FALSE)
    /\ allow_heat /\ HEAT_ENABLE /\ control_ssr_on

\* C19: every jog_fwd() step is a jog_rev() step and every jog_rev() step
\* is a jog_fwd() step: from the same state and tick both give the same
\* state, direction, deadline, motor outputs and motor command.
C19_JogsAliased ==
    [][ /\ JogFwd => jog_rev
        /\ JogRev => jog_fwd ]_vars

\* C19 witness: jog_rev() has just started the forward extension.
C19_Witness ==
    /\ op = "jog_rev" /\ state = "EXTEND" /\ dir = 1
    /\ motor_cmd = Some(<<TRUE, FALSE>>)

\* C20: a step() called in IDLE, or without a deadline, or at a tick
\* before the deadline changes neither state, direction, deadline nor the
\* motor outputs, and issues no motor command.
C20_StepNoOp ==
    [][ (ActStep /\ (state = "IDLE" \/ until_ms = None \/ now < until_ms[1]))
          => (UNCHANGED <<state, dir, until_ms, motorVars>>
              /\ motor_cmd' = None) ]_vars

\* C20 witness: step() has just returned early in the middle of WAIT.
C20_Witness ==
    /\ op = "step" /\ state = "WAIT" /\ motor_cmd = None
    /\ until_ms # None /\ now < until_ms[1]

\* C21: the actuator state is always one of IDLE, EXTEND, WAIT, RETRACT,
\* so step() never reaches its branch for an unknown state.
C21_PhaseSetExhaustive ==
    state \in {"IDLE", "EXTEND", "WAIT", "RETRACT"}

\* C21 witness: step() has just started the pause after EXTEND.
C21_Witness ==
    /\ op = "step" /\ state = "WAIT" /\ motor_cmd = Some(<<FALSE, FALSE>>)

\* C22: a step_once changes neither the actuator's state, direction and
\* deadline nor the motor outputs and issues no motor command; a poll
\* (with its jog, if any) and a step() change neither allow_heat, the
\* brain's heater command nor the SSR outputs and issue no SSR command.
C22_Ownership ==
    [][ /\ op' = "step_once" =>
              (UNCHANGED <<actVars, motorVars>> /\ motor_cmd' = None)
        /\ op' \in {"poll_btn1", "poll_btn2", "step"} =>
              UNCHANGED <<allow_heat, brain_ssr_on, ssrVars>> ]_vars

\* C22 witness: RETRACT has just ended (the motor stopped by step()) with
\* the heater on, and the heater is still on.
C22_Witness ==
    /\ op = "step" /\ state = "IDLE" /\ motor_cmd = Some(<<FALSE, FALSE>>)
    /\ control_ssr_on /\ ssr_pin = Some(1)

\* C23: is_moving() is true exactly when the state is not IDLE, also in
\* WAIT with the motor stopped; get_ui_state() is IDLE, EXT+, WAIT, EXT-
\* for IDLE, EXTEND, WAIT, RETRACT (each of 4 characters).
C23_Observers ==
    /\ is_moving <=> state # "IDLE"
    /\ state = "WAIT" => (is_moving /\ get_motor_dir = 0)
    /\ get_ui_state = (CASE state = "IDLE"    -> "IDLE"
                          [] state = "EXTEND"  -> "EXT+"
                          [] state = "WAIT"    -> "WAIT"
                          [] state = "RETRACT" -> "EXT-")
    /\ get_ui_state \in {"IDLE", "EXT+", "WAIT", "EXT-"}

\* C23 witness: the pause, reported as moving with the motor stopped.
C23_Witness ==
    /\ state = "WAIT" /\ is_moving /\ motor_dir = 0
    /\ get_ui_state = "WAIT" /\ age > 0

\* C24: the deadline is unset exactly when the state is IDLE.
C24_DeadlineIffInFlight == (until_ms = None) <=> (state = "IDLE")

\* C24 witness: step() has just ended a cycle and cleared the deadline.
C24_Witness ==
    /\ op = "step" /\ state = "IDLE" /\ until_ms = None
    /\ motor_cmd = Some(<<FALSE, FALSE>>)

\* C25: the tracked motor command never goes from forward to reverse in
\* one step; the motor is stopped throughout WAIT; reverse starts only
\* from WAIT and only once AUTO_WAIT_MS of clock time have passed since
\* the step() that started WAIT.
C25_DeadTime ==
    [][ /\ ~(motor_dir = 1 /\ motor_dir' = -1)
        /\ state = "WAIT" => (motor_dir = 0 /\ motor_fwd_pin = Some(0)
                                /\ motor_rev_pin = Some(0))
        /\ (motor_dir # -1 /\ motor_dir' = -1) =>
              (state = "WAIT" /\ age >= AUTO_WAIT_MS)
        /\ (state = "WAIT" /\ state' # "WAIT") =>
              (state' = "RETRACT" /\ age >= AUTO_WAIT_MS) ]_vars

\* C25 witness: RETRACT has just started after a pause that a late
\* step() had started, long after the EXTEND deadline.
C25_Witness ==
    /\ op = "step" /\ state = "RETRACT" /\ jumped = {"EXTEND"}
    /\ motor_cmd = Some(<<FALSE, TRUE>>)

\* C26: a drive phase has its deadline at its start tick plus its
\* duration, and no operation at a tick before that deadline changes the
\* phase or the motor command, which is forward in EXTEND and reverse in
\* RETRACT.
C26_MinimumDriveTime ==
    [][ (state \in {"EXTEND", "RETRACT"}) =>
          /\ motor_dir = (IF state = "EXTEND" THEN 1 ELSE -1)
          /\ (wrapped = "no" /\ age < TICKS_PERIOD) =>
                until_ms = Some(now - age + PhaseDuration(state))
          /\ now < until_ms[1] =>
                (state' = state /\ UNCHANGED <<until_ms, motorVars>>)
          /\ age < PhaseDuration(state) =>
                (state' = state /\ UNCHANGED <<until_ms, motorVars>>) ]_vars

\* C26 witness: a trigger has just been dropped in the middle of EXTEND.
C26_Witness ==
    /\ op \in {"jog_fwd", "jog_rev"} /\ state = "EXTEND" /\ motor_cmd = None
    /\ age > 0 /\ age < AUTO_EXTEND_MS /\ motor_dir = 1

\* C27: a step() moves the actuator by at most one phase, and the phase
\* it starts gets its whole duration from the tick of that step(),
\* however far the clock is beyond the old deadline.
C27_OnePhasePerStep ==
    [][ ActStep =>
          /\ state' \in {state, NextPhase(state)}
          /\ (state' # state /\ state' # "IDLE") =>
                until_ms' = Some(now + PhaseDuration(state')) ]_vars

\* C27 witness: a step() that came when WAIT would have been over too has
\* started WAIT.
C27_Witness ==
    /\ op = "step" /\ state = "WAIT" /\ jumped = {"EXTEND"} /\ age = 0
    /\ until_ms = Some(now + AUTO_WAIT_MS)

\* C28 (the claim as stated; the code violates it): a phase started with
\* duration_ms <= 0 has its deadline at the tick at which it started, and
\* no step() called during it returns without ending it.
C28_NonPositiveDuration ==
    /\ (op = "start_phase" /\ phase_ms =< 0) => until_ms = Some(now)
    /\ ~(op = "step" /\ motor_cmd = None /\ state # "IDLE" /\ phase_ms =< 0)

\* C29: control's tracked motor direction equals the actuator's
\* direction, and the pins drive nothing while that direction is 0.
C29_OutputAgrees ==
    /\ get_motor_dir = get_dir
    /\ Booted => /\ motor_fwd_pin = Some(IF get_dir = 1 THEN 1 ELSE 0)
                 /\ motor_rev_pin = Some(IF get_dir = -1 THEN 1 ELSE 0)

\* C29 witness: step() has just ended RETRACT: direction 0 and both pins
\* low.
C29_Witness ==
    /\ op = "step" /\ state = "IDLE" /\ get_dir = 0 /\ get_motor_dir = 0
    /\ motor_fwd_pin = Some(0) /\ motor_rev_pin = Some(0) /\ now > 0

\* C30: main()'s initialisation leaves the SSR off, the motor stopped,
\* the alarm off and the actuator IDLE without a deadline; afterwards the
\* motor is stopped whenever the actuator is IDLE, which only a trigger
\* delivered by a poll ends, the SSR is on only after a step_once under
\* HEAT_ENABLE that allowed heat, and the alarm stays off.
C30_SafeStartUp ==
    [][ /\ op' = "boot" =>
              /\ ~control_ssr_on' /\ ssr_pin' = Some(0)
              /\ motor_dir' = 0
              /\ motor_fwd_pin' = Some(0) /\ motor_rev_pin' = Some(0)
              /\ ~alarm_on' /\ alarm_pin' = Some(0)
              /\ state' = "IDLE" /\ until_ms' = None
        /\ state' = "IDLE" =>
              /\ motor_dir' = 0
              /\ motor_fwd_pin' = Some(0) /\ motor_rev_pin' = Some(0)
        /\ (state = "IDLE" /\ state' # "IDLE") =>
              /\ op' \in {"poll_btn1", "poll_btn2"}
              /\ motor_cmd' = Some(<<TRUE, FALSE>>)
        /\ (control_ssr_on' \/ ssr_pin' = Some(1)) =>
              (brain_ran' /\ HEAT_ENABLE /\ allow_heat')
        /\ (~control_ssr_on /\ control_ssr_on') => op' = "step_once"
        /\ ~alarm_on' /\ alarm_pin' # Some(1) ]_vars

\* C30 witness: main()'s initialisation has just run, with HEAT_ENABLE
\* true, and every output is off.
C30_Witness ==
    /\ op = "boot" /\ HEAT_ENABLE
    /\ ssr_pin = Some(0) /\ alarm_pin = Some(0)
    /\ motor_fwd_pin = Some(0) /\ motor_rev_pin = Some(0)
    /\ state = "IDLE" /\ until_ms = None

\* C31: in the {IDLE, MOVING} variant a call of jog_fwd() or jog_rev()
\* while the state is MOVING leaves state, direction and deadline
\* unchanged.
C31_SmSingleFlight ==
    [][ (op' \in {"sm_jog_fwd", "sm_jog_rev"} /\ sm_state = "MOVING")
          => UNCHANGED smVars ]_vars

\* The Button a poll step is about
Polled == IF op' = "poll_btn1" THEN 1 ELSE 2
IsPoll == op' \in {"poll_btn1", "poll_btn2"} /\ btn_mgr # None

\* C32: on a release edge whose press edge was observed at tick p,
\* Button.poll emits exactly '<name>_LONG' if now - p >= 800,
\* '<name>_SHORT' if 50 <= now - p < 800, and nothing if now - p < 50.
C32_Classification ==
    [][ IsPoll =>
          LET b     == btn_mgr[1][Polled]
              after == btn_mgr'[1][Polled]
          IN (b.last_state = 0 /\ after.last_state = 1
                /\ b.press_start_ms # None) =>
               LET p == b.press_start_ms[1]
               IN /\ now - p >= 800 => emitted' = << <<b.name, "LONG">> >>
                  /\ (50 =< now - p /\ now - p < 800) =>
                        emitted' = << <<b.name, "SHORT">> >>
                  /\ now - p < 50 => emitted' = << >> ]_vars

\* C32 witness: BTN1, pressed at tick 0, has just been released at tick
\* 50 and the poll reported a short press.
C32_Witness ==
    /\ op = "poll_btn1" /\ now = 50
    /\ emitted = << <<"BTN1", "SHORT">> >>
    /\ btn_mgr[1][1].last_state = 1

\* C33: Button.poll emits at most one event, and only on a release edge
\* whose press edge it has seen; the release forgets the press, so a
\* press-release pair gives at most one event; the actuator leaves IDLE
\* only in a poll that found the button released.
C33_OnlyOnRelease ==
    [][ IsPoll =>
          LET b     == btn_mgr[1][Polled]
              after == btn_mgr'[1][Polled]
          IN /\ Len(emitted') =< 1
             /\ emitted' # << >> =>
                   /\ b.last_state = 0 /\ after.last_state = 1
                   /\ b.press_start_ms # None
             /\ after.last_state = 1 => after.press_start_ms = None
             /\ (state = "IDLE" /\ state' # "IDLE") =>
                   (after.last_state = 1 /\ emitted' # << >>) ]_vars

\* C33 witness: BTN2 has just been released after a long press and the
\* jog has started.
C33_Witness ==
    /\ op = "poll_btn2"
    /\ emitted = << <<"BTN2", "LONG">> >>
    /\ btn_mgr[1][2].last_state = 1 /\ btn_mgr[1][2].press_start_ms = None
    /\ state = "EXTEND" /\ age = 0

\* C34: on_button_event changes the actuator only for BTN1_LONG and
\* BTN2_LONG; BTN1_SHORT changes only the page, BTN2_SHORT only the
\* units mode, any other event nothing; no event changes the heater
\* output.
C34_EventRouting ==
    [][ op' = "event" =>
          LET evt == emitted'[1]
          IN /\ UNCHANGED <<ssr_pin, control_ssr_on, brain_ssr_on, allow_heat>>
             /\ evt \notin {<<"BTN1", "LONG">>, <<"BTN2", "LONG">>} =>
                   UNCHANGED <<actVars, motorVars>>
             /\ evt = <<"BTN1", "SHORT">> =>
                   (page_idx' # page_idx /\ UNCHANGED current_units)
             /\ evt = <<"BTN2", "SHORT">> =>
                   (current_units' # current_units /\ UNCHANGED page_idx)
             /\ evt \notin {<<"BTN1", "SHORT">>, <<"BTN2", "SHORT">>} =>
                   UNCHANGED uiVars ]_vars

\* C34 witness: BTN1_SHORT has just moved the display to the second page
\* while the heater is on and the actuator idle.
C34_Witness ==
    /\ op = "event" /\ emitted = << <<"BTN1", "SHORT">> >>
    /\ page_idx = 1 /\ control_ssr_on /\ ssr_pin = Some(1)
    /\ state = "IDLE"

\* C35: after ui_controller.init() the page index is always an index of
\* (status, limits, debug); three next_page() calls and two
\* toggle_units() calls come back to where they started; next_page()
\* leaves the units alone and toggle_units() the page, so the two
\* commute.
C35_Cycling ==
    [][ /\ page_idx' \in 0 .. (Len(PAGES) - 1)
        /\ NextPageIdx(NextPageIdx(NextPageIdx(page_idx'))) = page_idx'
        /\ ToggledUnits(ToggledUnits(current_units')) = current_units'
        /\ op' = "next_page" =>
              (page_idx' = NextPageIdx(page_idx) /\ UNCHANGED current_units)
        /\ op' = "toggle_units" =>
              (current_units' = ToggledUnits(current_units)
                 /\ UNCHANGED page_idx) ]_vars

\* C35 witness: next_page() has just wrapped from the last page to the
\* first, the units toggled to METRIC.
C35_Witness ==
    /\ op = "next_page" /\ page_idx = 0 /\ current_units = UNITS_METRIC

\* C36: for every word, test_sensors._decode_tc_c_from_raw and
\* sensors._decode_tc_c_from_raw give the same temperature, or both an
\* invalid reading.
C36_DecodersAgree ==
    dbg # None =>
       /\ dbg[1].debug = dbg[1].sensors
       /\ dbg[1].debug = test_decode_tc_c_from_raw(dbg[1].raw)
       /\ dbg[1].sensors = decode_tc_c_from_raw(dbg[1].raw)

\* C36 witness: a word with the sign bit set and no fault went through
\* both decoders, which gave a temperature.
C36_Witness ==
    /\ dbg # None
    /\ Field14(dbg[1].raw) = 16383 /\ FaultBit(dbg[1].raw) = 0
    /\ IsNum(dbg[1].debug)

=============================================================================
